---- MODULE Spec2Model ----
(***************************************************************************)
(* SimpleRanker (simpleranker.py): the executor that replaces the matches   *)
(* of every selected document by one promoted match per source key, built   *)
(* from the document's own matches and the matches of its immediate chunks. *)
(*                                                                         *)
(* Library behaviour the source relies on (docarray, outside the            *)
(* repository) and how it is modelled:                                      *)
(*   - doc.scores is a defaultdict(NamedScore): reading a missing metric    *)
(*     yields a NamedScore whose value is None (NoScore); None raises       *)
(*     TypeError when compared, negated or summed;                          *)
(*   - Document.copy_from leaves the copy's fields decoupled from the       *)
(*     original (see CopyFrom / MeanWrite);                                 *)
(*   - docs['@r'] are the root documents, docs['@c'] their chunks,          *)
(*     docs['@r,c'] the roots followed by their chunks.                     *)
(***************************************************************************)
EXTENDS Integers, Sequences, FiniteSets, TLC

VARIABLES
    pc,          \* "new" | "ready" | "failed": the ranker's construction
    self,        \* the instance: metric, ranking, traversal_paths
    given,       \* history: the arguments __init__ was called with
    docs,        \* document id -> its matches list (the tree is fixed)
    calls,       \* number of rank calls made
    before,      \* history: docs at the start of the last rank call
    parameters,  \* history: the parameters of the last rank call
    lastTargets, \* history: docs[traversal_paths] of the last rank call
    lastErr,     \* history: the last rank call raised
    prevParameters \* history: the parameters of the rank call before the last

vars == <<pc, self, given, docs, calls, before, parameters, lastTargets, lastErr,
          prevParameters>>

\* ------------------------------------------------------------------ bounds

MaxCalls == 2

\* ------------------------------------------------------------- data model

\* One root with two chunks; the first chunk has a chunk of its own.
Nodes == {"R", "C1", "C2", "CC"}

Chunks(d) ==
    CASE d = "R" -> <<"C1", "C2">>
      [] d = "C1" -> <<"CC">>
      [] OTHER -> <<>>

Ids == {"a", "b"}
Granularities == {0, 1}
Scores == {1, 2}

\* A score value is a rational <<numerator, denominator>>; NoScore is the
\* value None of a metric that is absent from the score mapping.
NoScore == <<0, 0>>
ScoreValues == {NoScore} \cup {<<s, 1>> : s \in Scores}

\* Candidate matches a caller can supply: any id, any parent_id (a document
\* is not its own parent), any granularity, with or without the score.
Matches ==
    {m \in [id : Ids, parent_id : {""} \cup Ids,
            granularity : Granularities, score : ScoreValues] :
        m.id # m.parent_id}

\* Matches found for a chunk: chunk-level documents.
ChunkLevelMatches == {m \in Matches : m.granularity > 0}

\* Matches of the nested chunk: scored chunks of document "a".
SubMatches == {m \in ChunkLevelMatches : m.parent_id = "a" /\ m.score # NoScore}

AtMostOne(S) == {<<>>} \cup {<<m>> : m \in S}

Trees ==
    {[n \in Nodes |-> CASE n = "R" -> <<>>
                        [] n = "C1" -> c1
                        [] n = "C2" -> c2
                        [] OTHER -> cc] :
        c1 \in AtMostOne(Matches), c2 \in AtMostOne(ChunkLevelMatches),
        cc \in AtMostOne(SubMatches)}

\* ---------------------------------------------------------- configuration

Rankings == {"min", "max", "mean_min", "mean_max"}
RankingArgs == Rankings \cup {"median"}
TraversalPaths == {"@r", "@c", "@r,c"}
NoParam == "absent"
NoInstance == [metric |-> "", ranking |-> "", traversal_paths |-> ""]

RankingValidAlways(ranking) == TRUE

\* assert ranking in ['min', 'max', 'mean_min', 'mean_max']
RankingValid(ranking) == ranking \in Rankings

\* docs[traversal_paths]
Targets(traversal_paths) ==
    CASE traversal_paths = "@r" -> <<"R">>
      [] traversal_paths = "@c" -> <<"C1", "C2">>
      [] OTHER -> <<"R", "C1", "C2">>

\* parameters.get('traversal_paths', self.traversal_paths)
ParametersGet(params, default) == IF params = NoParam THEN default ELSE params

SelfOverwritten(s, traversal_paths) == [s EXCEPT !.traversal_paths = traversal_paths]

\* rank binds traversal_paths to a local and assigns no attribute of self
SelfAfterRank(s, traversal_paths) == s

\* ------------------------------------------------------------- arithmetic

RECURSIVE GCD(_, _)
GCD(a, b) == IF b = 0 THEN a ELSE GCD(b, a % b)

Norm(n, d) == LET g == GCD(n, d) IN <<n \div g, d \div g>>

Add(x, y) == Norm(x[1] * y[2] + y[1] * x[2], x[2] * y[2])

Less(x, y) == x[1] * y[2] < y[1] * x[2]

Leq(x, y) == x[1] * y[2] <= y[1] * x[2]

Neg(x) == <<0 - x[1], x[2]>>

\* ---------------------------------------------------------------- sorting

\* sorted(): a stable ascending sort of <<key, value>> pairs.
RECURSIVE Insert(_, _)
Insert(s, p) ==
    IF s = <<>> THEN <<p>>
    ELSE IF Less(p.k, Head(s).k) THEN <<p>> \o s
    ELSE <<Head(s)>> \o Insert(Tail(s), p)

RECURSIVE sorted(_)
sorted(ps) ==
    IF ps = <<>> THEN <<>>
    ELSE Insert(sorted(SubSeq(ps, 1, Len(ps) - 1)), ps[Len(ps)])

Values(ps) == [i \in 1..Len(ps) |-> ps[i].v]

\* Python's order of the strings used as ids.
IdOrd(s) == CASE s = "" -> 0 [] s = "a" -> 1 [] OTHER -> 2

\* ------------------------------------------------------ SimpleRanker.rank

\* lambda d: d.parent_id or d.id
key(d) == IF d.parent_id # "" THEN d.parent_id ELSE d.id

\* The candidates of one list, each with the place it is stored at.
Entries(ms, n) == [i \in 1..Len(ms[n]) |-> [doc |-> ms[n][i], node |-> n, idx |-> i]]

RECURSIVE ChunkMatches(_, _)
ChunkMatches(ms, cs) ==
    IF cs = <<>> THEN <<>>
    ELSE Entries(ms, Head(cs)) \o ChunkMatches(ms, Tail(cs))

\* matches_of_chunks: doc.matches, then chunk.matches for chunk in doc.chunks
matches_of_chunks(ms, d) == Entries(ms, d) \o ChunkMatches(ms, Chunks(d))

Unsorted(pool) == pool

\* sorted(matches_of_chunks, key=lambda d: d.parent_id or d.id)
SortBySourceKey(pool) ==
    Values(sorted([i \in 1..Len(pool) |->
                     [k |-> <<IdOrd(key(pool[i].doc)), 1>>, v |-> pool[i]]]))

RunLen(s) ==
    CHOOSE n \in 1..Len(s) :
        /\ \A i \in 1..n : key(s[i].doc) = key(s[1].doc)
        /\ n = Len(s) \/ key(s[n + 1].doc) # key(s[1].doc)

\* itertools.groupby: the contiguous runs of equal key
RECURSIVE groupby(_)
groupby(s) ==
    IF s = <<>> THEN <<>>
    ELSE <<SubSeq(s, 1, RunLen(s))>> \o groupby(SubSeq(s, RunLen(s) + 1, Len(s)))

groups(ms, d) == groupby(SortBySourceKey(matches_of_chunks(ms, d)))

HasNoScore(g) == \E i \in 1..Len(g) : g[i].doc.score = NoScore

\* sorted(..., key=value) compares None once the list has two elements;
\* sorted(..., key=-value) negates None for any element.
SortRaises(g, negated) ==
    IF negated THEN HasNoScore(g) ELSE Len(g) >= 2 /\ HasNoScore(g)

\* sorted(chunk_match_list, key=lambda m: m.scores[self.metric].value)
SortByScore(g) ==
    Values(sorted([i \in 1..Len(g) |-> [k |-> g[i].doc.score, v |-> g[i]]]))

\* sorted(chunk_match_list, key=lambda m: -m.scores[self.metric].value)
SortByNegScore(g) ==
    Values(sorted([i \in 1..Len(g) |-> [k |-> Neg(g[i].doc.score), v |-> g[i]]]))

RepresentativeUnsorted(ranking, g) == g[1]

\* chunk_match_list[0] after the policy's sort of the group
Representative(ranking, g) ==
    CASE ranking = "min" -> SortByScore(g)[1]
      [] ranking = "max" -> SortByNegScore(g)[1]
      [] OTHER -> g[1]

\* match = Document(); match.copy_from(chunk_match_list[0])
CopyFrom(d) ==
    [id |-> d.id, parent_id |-> d.parent_id,
     granularity |-> d.granularity, score |-> d.score]

PromoteKeepParent(match, rep) ==
    IF match.granularity > 0
    THEN [match EXCEPT !.id = rep.parent_id, !.granularity = 0]
    ELSE match

\* if match.granularity > 0: id = parent_id; granularity = 0; parent_id = None
Promote(match, rep) ==
    IF match.granularity > 0
    THEN [match EXCEPT !.id = rep.parent_id, !.granularity = 0, !.parent_id = ""]
    ELSE match

RECURSIVE Sum(_)
Sum(g) == IF g = <<>> THEN <<0, 1>> ELSE Add(Head(g).doc.score, Sum(Tail(g)))

MeanOfFirst(g) == g[1].doc.score

\* sum(scores) / len(scores)
Mean(g) == LET s == Sum(g) IN Norm(s[1], s[2] * Len(g))

MeanWriteThrough(rep, match, v) ==
    [rep |-> [rep EXCEPT !.score = v], match |-> [match EXCEPT !.score = v]]

\* match.scores[self.metric] = NamedScore(value=..., op_name=self.ranking):
\* the copy's score mapping is its own, the representative keeps its score.
MeanWrite(rep, match, v) ==
    [rep |-> rep, match |-> [match EXCEPT !.score = v]]

\* One iteration of "for key, group in groups" on target d (lines 61-88).
ProcessGroup(ranking, st, d, g) ==
    IF st.err THEN st
    ELSE
      LET isMean == ranking \in {"mean_min", "mean_max"}
          raises == \/ ranking = "min" /\ SortRaises(g, FALSE)
                    \/ ranking = "max" /\ SortRaises(g, TRUE)
                    \/ isMean /\ HasNoScore(g)
      IN
        IF raises THEN [st EXCEPT !.err = TRUE]
        ELSE
          LET rep == Representative(ranking, g)
              match == Promote(CopyFrom(rep.doc), rep.doc)
              w == IF isMean THEN MeanWrite(rep.doc, match, Mean(g))
                   ELSE [rep |-> rep.doc, match |-> match]
              ms1 == IF rep.node = d THEN st.ms
                     ELSE [st.ms EXCEPT ![rep.node][rep.idx] = w.rep]
          IN [ms |-> [ms1 EXCEPT ![d] = Append(@, w.match)], err |-> FALSE]

RECURSIVE ProcessGroups(_, _, _, _)
ProcessGroups(ranking, st, d, gs) ==
    IF gs = <<>> THEN st
    ELSE ProcessGroups(ranking, ProcessGroup(ranking, st, d, Head(gs)), d, Tail(gs))

Scored(mlist) == [i \in 1..Len(mlist) |-> [doc |-> mlist[i]]]

FinalSortNone(ranking, mlist) == mlist

\* doc.matches = DocumentArray(sorted(doc.matches, key = +/- value))
FinalSort(ranking, mlist) ==
    IF ranking \in {"min", "mean_min"}
    THEN Values(sorted([i \in 1..Len(mlist) |-> [k |-> mlist[i].score, v |-> mlist[i]]]))
    ELSE Values(sorted([i \in 1..Len(mlist) |-> [k |-> Neg(mlist[i].score), v |-> mlist[i]]]))

ClearNothing(ms, d) == ms

\* doc.matches.clear()
Clear(ms, d) == [ms EXCEPT ![d] = <<>>]

\* The body of "for doc in docs[traversal_paths]" for one target (lines 52-96).
RankDoc(ranking, ms, d) ==
    LET gs == groups(ms, d)
        st == ProcessGroups(ranking, [ms |-> Clear(ms, d), err |-> FALSE], d, gs)
        out == st.ms[d]
    IN
      IF st.err THEN st
      ELSE IF SortRaises(Scored(out), ranking \in {"max", "mean_max"})
      THEN [st EXCEPT !.err = TRUE]
      ELSE [ms |-> [st.ms EXCEPT ![d] = FinalSort(ranking, out)], err |-> FALSE]

\* The loop over the targets; an exception ends the call where it is raised.
RECURSIVE RankCall(_, _, _)
RankCall(ranking, ms, targets) ==
    IF targets = <<>> THEN [ms |-> ms, err |-> FALSE]
    ELSE LET r == RankDoc(ranking, ms, Head(targets))
         IN IF r.err THEN r ELSE RankCall(ranking, r.ms, Tail(targets))

\* ---------------------------------------------------------------- actions

Init ==
    /\ pc = "new"
    /\ self = NoInstance
    /\ given = NoInstance
    /\ docs \in Trees
    /\ calls = 0
    /\ before = [n \in Nodes |-> <<>>]
    /\ parameters = NoParam
    /\ lastTargets = <<>>
    /\ lastErr = FALSE
    /\ prevParameters = NoParam

\* SimpleRanker.__init__(metric, ranking, traversal_paths)
Construct ==
    \E ranking \in RankingArgs, traversal_paths \in TraversalPaths :
        LET args == [metric |-> "cosine", ranking |-> ranking,
                     traversal_paths |-> traversal_paths]
        IN
          /\ pc = "new"
          /\ given' = args
          /\ IF RankingValid(ranking)
             THEN pc' = "ready" /\ self' = args
             ELSE pc' = "failed" /\ self' = NoInstance
          /\ UNCHANGED <<docs, calls, before, parameters, lastTargets, lastErr,
                       prevParameters>>

\* SimpleRanker.rank(docs, parameters). A call that raised ends the request:
\* its documents are not ranked again.
rank ==
    \E params \in {NoParam} \cup TraversalPaths :
        LET traversal_paths == ParametersGet(params, self.traversal_paths)
            res == RankCall(self.ranking, docs, Targets(traversal_paths))
        IN
          /\ pc = "ready"
          /\ calls < MaxCalls
          /\ ~lastErr
          /\ docs' = res.ms
          /\ lastErr' = res.err
          /\ lastTargets' = Targets(traversal_paths)
          /\ parameters' = params
          /\ before' = docs
          /\ calls' = calls + 1
          /\ prevParameters' = parameters
          /\ self' = SelfAfterRank(self, traversal_paths)
          /\ UNCHANGED <<pc, given>>

Next == Construct \/ rank

Spec == Init /\ [][Next]_vars

\* ------------------------------------------------------------- properties

Completed == calls > 0 /\ ~lastErr

TargetSet == {lastTargets[i] : i \in 1..Len(lastTargets)}

\* The candidate pool of target d in the last call: its own matches and the
\* matches of its immediate chunks, as they were when the call started.
Pool(d) == [i \in 1..Len(matches_of_chunks(before, d)) |->
               matches_of_chunks(before, d)[i].doc]

\* The pools of the targets of the last call.
Pools == {<<d, Pool(d)>> : d \in TargetSet}

\* A match's source identity: its parent_id if non-empty, its id otherwise.
SourceIdentity(m) == IF m.parent_id = "" THEN m.id ELSE m.parent_id

\* The candidates of pool P that share source identity k (by position).
Sharing(P, k) == {i \in 1..Len(P) : SourceIdentity(P[i]) = k}

PoolKeys(P) == {SourceIdentity(P[i]) : i \in 1..Len(P)}

RECURSIVE SumOver(_, _)
SumOver(P, I) ==
    IF I = {} THEN <<0, 1>>
    ELSE LET i == CHOOSE x \in I : TRUE
         IN Add(P[i].score, SumOver(P, I \ {i}))

MeanOver(P, I) == LET t == SumOver(P, I) IN Norm(t[1], t[2] * Cardinality(I))

MissingScoreInPool ==
    \E tp \in Pools : \E x \in 1..Len(tp[2]) : tp[2][x].score = NoScore

Ascending == self.ranking \in {"min", "mean_min"}

\* C1 (as claimed): after rank, no two matches of a target document have the
\* same source identity, whatever the granularity and parent_id of candidates.
C1_DistinctSourceIdentity ==
    Completed =>
        \A d \in TargetSet : \A i, j \in 1..Len(docs[d]) :
            i # j => SourceIdentity(docs[d][i]) # SourceIdentity(docs[d][j])

\* C1 (amended): after rank, no two matches of a target document have the same
\* non-empty source identity; the matches promoted from candidates with
\* granularity > 0 and an empty parent_id all carry the empty identity.
C1_DistinctNonEmptySourceIdentity ==
    Completed =>
        \A d \in TargetSet : \A i, j \in 1..Len(docs[d]) :
            (i # j /\ SourceIdentity(docs[d][i]) # "")
                => SourceIdentity(docs[d][i]) # SourceIdentity(docs[d][j])

\* Two candidates of a pool of three or more shared a source key, and the
\* target ended with two matches of distinct non-empty identity.
C1_Witness ==
    /\ Completed
    /\ \E tp \in Pools :
        /\ Len(docs[tp[1]]) = 2
        /\ Len(tp[2]) >= 3
        /\ SourceIdentity(docs[tp[1]][1]) # ""
        /\ SourceIdentity(docs[tp[1]][2]) # ""

\* C2: after rank, adjacent matches of every target document are in ascending
\* score order under min and mean_min, in descending order under max and
\* mean_max.
C2_Ordered ==
    Completed =>
        \A d \in TargetSet : \A i \in 1..(Len(docs[d]) - 1) :
            IF Ascending
            THEN Leq(docs[d][i].score, docs[d][i + 1].score)
            ELSE Leq(docs[d][i + 1].score, docs[d][i].score)

\* A target ended with two matches of different scores under a descending
\* policy, the lower one from the group whose key sorts first.
C2_Witness ==
    /\ Completed
    /\ ~Ascending
    /\ \E d \in TargetSet :
        /\ Len(docs[d]) = 2
        /\ Less(docs[d][2].score, docs[d][1].score)
        /\ IdOrd(SourceIdentity(docs[d][2])) < IdOrd(SourceIdentity(docs[d][1]))

IsExtremum(P, v, I) ==
    /\ \E i \in I : P[i].score = v
    /\ \A i \in I : IF self.ranking = "min"
                    THEN Leq(v, P[i].score)
                    ELSE Leq(P[i].score, v)

\* C3 (as claimed, on pools whose candidates all have the score): under min
\* (max), every output match carries the minimum (maximum) score over the
\* candidates of the pool that share its source key.
C3_Extremum ==
    (Completed /\ self.ranking \in {"min", "max"} /\ ~MissingScoreInPool) =>
        \A tp \in Pools : \A i \in 1..Len(docs[tp[1]]) :
            IsExtremum(tp[2], docs[tp[1]][i].score,
                       Sharing(tp[2], SourceIdentity(docs[tp[1]][i])))

\* C3 (amended): under min (max), every output match whose source key is
\* non-empty carries the minimum (maximum) score over the candidates of the
\* pool that share its source key.
C3_ExtremumNonEmptyKey ==
    (Completed /\ self.ranking \in {"min", "max"}) =>
        \A tp \in Pools : \A i \in 1..Len(docs[tp[1]]) :
            SourceIdentity(docs[tp[1]][i]) # "" =>
                IsExtremum(tp[2], docs[tp[1]][i].score,
                           Sharing(tp[2], SourceIdentity(docs[tp[1]][i])))

\* A group of two candidates with different scores was reduced to one match.
C3_Witness ==
    /\ Completed
    /\ self.ranking \in {"min", "max"}
    /\ \E tp \in Pools : \E i \in 1..Len(docs[tp[1]]) :
        /\ SourceIdentity(docs[tp[1]][i]) # ""
        /\ \E x, y \in Sharing(tp[2], SourceIdentity(docs[tp[1]][i])) :
            Less(tp[2][x].score, tp[2][y].score)

\* The scores of the matches out are the group means of pool P in the
\* policy's order.
MeansInOrder(P, out) ==
    /\ Len(out) = Cardinality(PoolKeys(P))
    /\ \A means \in {{<<k, MeanOver(P, Sharing(P, k))>> : k \in PoolKeys(P)}} :
        \A i \in 1..Len(out) :
            LET v == out[i].score
                strictlyBefore ==
                    {km \in means : IF Ascending THEN Less(km[2], v) ELSE Less(v, km[2])}
                notAfter ==
                    {km \in means : IF Ascending THEN Leq(km[2], v) ELSE Leq(v, km[2])}
            IN Cardinality(strictlyBefore) < i /\ i <= Cardinality(notAfter)

\* C4 (as claimed): under mean_min / mean_max every output match carries the
\* arithmetic mean of the scores of the candidates that share its source key,
\* and the i-th output match carries the i-th such mean in the policy's order.
C4_Mean ==
    (Completed /\ self.ranking \in {"mean_min", "mean_max"}) =>
        \A tp \in Pools :
            /\ MeansInOrder(tp[2], docs[tp[1]])
            /\ \A i \in 1..Len(docs[tp[1]]) :
                \A I \in {Sharing(tp[2], SourceIdentity(docs[tp[1]][i]))} :
                    I # {} /\ docs[tp[1]][i].score = MeanOver(tp[2], I)

\* C4 (amended): under mean_min / mean_max every output match whose source key
\* is non-empty carries the arithmetic mean of the scores of the candidates
\* that share its source key, and the i-th output match carries the i-th
\* group mean in the policy's order.
C4_MeanNonEmptyKey ==
    (Completed /\ self.ranking \in {"mean_min", "mean_max"}) =>
        \A tp \in Pools :
            /\ MeansInOrder(tp[2], docs[tp[1]])
            /\ \A i \in 1..Len(docs[tp[1]]) :
                SourceIdentity(docs[tp[1]][i]) # "" =>
                    \A I \in {Sharing(tp[2], SourceIdentity(docs[tp[1]][i]))} :
                        I # {} /\ docs[tp[1]][i].score = MeanOver(tp[2], I)

\* A group of two candidates with different scores got a mean that is the
\* score of neither.
C4_Witness ==
    /\ Completed
    /\ self.ranking \in {"mean_min", "mean_max"}
    /\ \E tp \in Pools : \E i \in 1..Len(docs[tp[1]]) :
        /\ SourceIdentity(docs[tp[1]][i]) # ""
        /\ Cardinality(Sharing(tp[2], SourceIdentity(docs[tp[1]][i]))) >= 2
        /\ \A x \in Sharing(tp[2], SourceIdentity(docs[tp[1]][i])) :
            tp[2][x].score # docs[tp[1]][i].score

\* C5 (as claimed, on pools whose candidates all have the score): after rank
\* every match of every target document has granularity 0 and no parent_id.
C5_Promoted ==
    (Completed /\ ~MissingScoreInPool) =>
        \A d \in TargetSet : \A i \in 1..Len(docs[d]) :
            docs[d][i].granularity = 0 /\ docs[d][i].parent_id = ""

\* C5 (amended): after rank every match of every target document has
\* granularity 0, and it has a parent_id only when it is the copy of a
\* candidate whose granularity was already 0 and whose parent_id was
\* non-empty (it then keeps that candidate's id and parent_id).
C5_PromotedUnlessRootWithParent ==
    Completed =>
        \A tp \in Pools : \A i \in 1..Len(docs[tp[1]]) :
            /\ docs[tp[1]][i].granularity = 0
            /\ docs[tp[1]][i].parent_id # "" =>
                \E x \in 1..Len(tp[2]) :
                    /\ tp[2][x].granularity = 0
                    /\ tp[2][x].parent_id = docs[tp[1]][i].parent_id
                    /\ tp[2][x].id = docs[tp[1]][i].id

\* A chunk-level candidate with a parent was promoted: the output match has
\* the candidate's parent_id as its id, granularity 0 and no parent_id.
C5_Witness ==
    /\ Completed
    /\ \E tp \in Pools : \E i \in 1..Len(docs[tp[1]]) : \E x \in 1..Len(tp[2]) :
        /\ tp[2][x].granularity > 0
        /\ tp[2][x].parent_id # ""
        /\ docs[tp[1]][i].id = tp[2][x].parent_id
        /\ docs[tp[1]][i].granularity = 0
        /\ docs[tp[1]][i].parent_id = ""

\* C6: whenever the pool of some target document contains a match without the
\* metric score, rank fails, for every policy and every pool size.
C6_MissingScoreFails ==
    (calls > 0 /\ MissingScoreInPool) => lastErr

\* C7: a ranking outside {min, max, mean_min, mean_max} fails at construction:
\* no instance has such a ranking and rank never runs with one.
C7_InvalidRankingRejected ==
    /\ pc = "ready" => self.ranking \in Rankings
    /\ (pc # "new" /\ given.ranking \notin Rankings) =>
            (pc = "failed" /\ self = NoInstance)
    /\ calls > 0 => (pc = "ready" /\ self.ranking \in Rankings)

\* Construction with ranking "median" failed and left no instance.
C7_Witness == pc = "failed" /\ given.ranking = "median" /\ self = NoInstance

\* C8 (as claimed): rank changes only the matches of the selected targets:
\* every chunk of every target keeps its matches list, and so does every
\* document that is not selected.
C8_Frame ==
    calls > 0 =>
        /\ \A d \in TargetSet : \A i \in 1..Len(Chunks(d)) :
               docs[Chunks(d)[i]] = before[Chunks(d)[i]]
        /\ \A n \in Nodes \ TargetSet : docs[n] = before[n]

\* C8 (amended): rank changes only the matches of the selected targets: every
\* document that is not itself selected, in particular every chunk of a
\* target that is not itself selected, keeps its matches list, each match
\* with the same id, parent_id, granularity and score (the mean policies
\* overwrite the score of the promoted copy only).
C8_FrameUnselected ==
    calls > 0 =>
        /\ \A d \in TargetSet : \A i \in 1..Len(Chunks(d)) :
               Chunks(d)[i] \notin TargetSet =>
                   docs[Chunks(d)[i]] = before[Chunks(d)[i]]
        /\ \A n \in Nodes \ TargetSet : docs[n] = before[n]

\* A mean policy gave the root a match whose score is the score of no
\* candidate, and the chunks it was built from still hold their matches.
C8_Witness ==
    /\ Completed
    /\ lastTargets = <<"R">>
    /\ self.ranking \in {"mean_min", "mean_max"}
    /\ docs["C1"] # <<>>
    /\ docs["C2"] # <<>>
    /\ \E i \in 1..Len(docs["R"]) : \A x \in 1..Len(Pool("R")) :
           Pool("R")[x].score # docs["R"][i].score

\* C9: a traversal selector in the parameters selects the targets of that call
\* only: the configured selector stays the one given at construction, and a
\* call without a selector operates on the documents that one selects.
C9_OverrideThisCallOnly ==
    /\ pc = "ready" => self.traversal_paths = given.traversal_paths
    /\ calls > 0 =>
        lastTargets = Targets(IF parameters = NoParam
                              THEN given.traversal_paths ELSE parameters)

\* A call without a selector followed a call that carried a selector other
\* than the configured one.
C9_Witness ==
    /\ calls = 2
    /\ given.traversal_paths = "@r"
    /\ prevParameters = "@c"
    /\ parameters = NoParam
    /\ lastTargets = <<"R">>
    /\ docs["R"] # <<>>

IdScores(list) == [i \in 1..Len(list) |-> <<list[i].id, list[i].score>>]

\* Every candidate of every target's pool had the score, and a non-empty
\* parent_id if its granularity is > 0.
WellFormedPools ==
    \A tp \in Pools : \A x \in 1..Len(tp[2]) :
        /\ tp[2][x].score # NoScore
        /\ tp[2][x].granularity > 0 => tp[2][x].parent_id # ""

\* No selected target is a chunk of another selected target.
OneLevel ==
    \A d \in TargetSet : \A i \in 1..Len(Chunks(d)) : Chunks(d)[i] \notin TargetSet

\* The last call left the (id, score) sequences that a further call with the
\* same configuration leaves.
Reproduced ==
    \A again \in {RankCall(self.ranking, docs, lastTargets)} :
        /\ ~again.err
        /\ \A d \in TargetSet : IdScores(again.ms[d]) = IdScores(docs[d])

\* C10 (as claimed): under min or max, with well-formed pools, a second rank
\* call with the same configuration leaves every target's (id, score)
\* sequence as the first call left it.
C10_Idempotent ==
    (Completed /\ self.ranking \in {"min", "max"} /\ WellFormedPools) => Reproduced

\* C10 (amended): under min or max, with well-formed pools and a selector
\* that selects no chunk of a selected document, a second rank call with the
\* same configuration leaves every target's (id, score) sequence as the first
\* call left it.
C10_IdempotentOneLevel ==
    (Completed /\ self.ranking \in {"min", "max"} /\ WellFormedPools /\ OneLevel)
        => Reproduced

\* A second call on the root, whose pool held its two promoted matches and
\* the chunks' matches, reproduced the two matches.
C10_Witness ==
    /\ calls = 2
    /\ Completed
    /\ self.ranking \in {"min", "max"}
    /\ WellFormedPools
    /\ lastTargets = <<"R">>
    /\ Len(before["R"]) = 2
    /\ Len(Pool("R")) = 4
    /\ \A i \in 1..Len(docs["R"]) : docs["R"][i].id # ""
    /\ IdScores(docs["R"]) = IdScores(before["R"])

====
